---- MODULE Spec2Model ----
(***************************************************************************)
(* Interaction state machine of the table viewer: leg selection and joint  *)
(* angles of TableRenderer (renderer.py), its picking pass with the        *)
(* pick-id encoding, its pick framebuffer and managed GPU resources, the   *)
(* event handlers of TableWindow (window.py), and the rotate/select/reset  *)
(* methods of the stand-alone TableRenderer of main_fixed.py.              *)
(*                                                                         *)
(* Angles are degrees, modelled as integers.  A Python dict is a function; *)
(* dict.get(k, default) is Get.  Leg keys are unique and non-empty, as the *)
(* data model requires of LegConfig.key; every limit range explored is     *)
(* non-empty (min <= max), and one of them excludes 0.                     *)
(***************************************************************************)
EXTENDS Integers, Sequences, FiniteSets, TLC

VARIABLES
    legs,          \* shapes.legs, as the sequence of the legs' keys
    joints,        \* the joints dict: leg key -> axis -> {min, max}
    joint_angles,  \* self.joint_angles: leg key -> axis -> degrees
    selected_leg,  \* self.selected_leg: a leg key or None
    pick_map,      \* self.pick_map: pick id -> leg key
    error,         \* the exception that ended the session, or "none"
    rotations,     \* number of rotate calls since construction or the last reset
    lastOp,        \* the call handled last: name, arguments, selection before it
    nextStart,     \* selection before the current run of select_next_leg calls
    nextCount,     \* length of the current run of select_next_leg calls
    viewport,      \* the window's framebuffer size <<width, height>>
    pick_fbo,      \* self.pick_fbo: index into fbos, 0 for None
    fbos,          \* every framebuffer allocated so far: size and release() calls
    bound,         \* the bound render target: 0 for ctx.screen, else index into fbos
    vao,           \* self.vao: the program it was built for and its release() calls
    orphaned,      \* a vertex array was overwritten in self.vao without release
    resources,     \* GPUResourceManager._resources
    releases,      \* release() calls received by each resource the manager created
    cleanups,      \* number of cleanup calls so far
    lastPick,      \* what the last pick read back and returned
    codec,         \* a pair of pick ids, their ID colours and the ids decoded
    window,        \* the pyglet window and its graphics context: "open" or "closed"
    frame,         \* the draw calls of the render or pick just handled, in order
    placed,        \* a leg, joint angles and scales, and the model matrices built
    tabletop_scale, \* EnhancedTableRenderer.tabletop_scale, in tenths
    leg_scale,     \* EnhancedTableRenderer.leg_scale, in tenths
    adjusts,       \* number of adjust calls since construction or the last reset_tabletop
    camera,        \* the ArcballCamera: distance, azimuth, elevation, is_rotating
    drags,         \* number of mouse drags so far
    scrolls        \* number of mouse scrolls so far

\* The GPU-side state.
gpu == <<viewport, pick_fbo, fbos, bound, vao, orphaned, resources, releases,
         cleanups, window>>

\* The state the enhanced variant adds: its scales and its camera.
enhanced == <<tabletop_scale, leg_scale, adjusts, camera, drags, scrolls>>

vars == <<legs, joints, joint_angles, selected_leg, pick_map, error,
          rotations, lastOp, nextStart, nextCount, gpu, lastPick, codec, frame,
          placed, enhanced>>

----------------------------------------------------------------------------
\* Bounds of the exploration.

MaxLegs == 3

MaxRotations == 2

MaxFbos == 3

MaxCleanups == 2

----------------------------------------------------------------------------
\* Values.

None == "None"

Axes == {"x", "y", "z"}

Buttons == {"LEFT", "RIGHT"}

AllKeys == <<"A", "B", "C", "D", "E">>

DefaultMin == -360

DefaultMax == 360

ROTATION_STEP == 5

\* Rotation deltas: one key step forward, two key steps back, and the large
\* steps that reach the bounds of the default range.
Deltas == {ROTATION_STEP, -2 * ROTATION_STEP, 400, -400}

EmptyDict == [k \in {} |-> 0]

Get(d, k, default) == IF k \in DOMAIN d THEN d[k] ELSE default

Truthy(v) == v # None

KeysOf(ls) == {ls[i] : i \in 1..Len(ls)}

\* keys.index(k): the first position of k in keys.
IndexOf(keys, k) == CHOOSE i \in 1..Len(keys) :
                        keys[i] = k /\ \A j \in 1..(i - 1) : keys[j] # k

\* The joints files explored: no limits at all, and a file that gives leg A
\* a full range on x, only max on y, only min on z, and leg B a range on x
\* that excludes 0, an empty entry on y and nothing on z.
NoJoints == EmptyDict

SomeJoints ==
    ("A" :> [x |-> [min |-> -10, max |-> 10],
             y |-> [max |-> 5],
             z |-> [min |-> -5]])
    @@
    ("B" :> (("x" :> [min |-> 10, max |-> 20]) @@ ("y" :> EmptyDict)))

JointsFiles == {NoJoints, SomeJoints}

\* The record of a call: its name, its arguments, and the selection it found.
Op(name) == [op |-> name, axis |-> "-", degrees |-> 0, sel |-> selected_leg]

\* An ID colour that packs only the low 16 bits of the id.
PickColor_16bit(idx) == <<idx % 256, (idx \div 256) % 256, 0>>

\* The ID colour of pick id idx, as the three bytes (idx >> 0, 8, 16) & 0xFF.
PickColor(idx) == <<idx % 256, (idx \div 256) % 256, (idx \div 65536) % 256>>

\* A byte / 255.0 as a colour component, in units of 2^-16: a resolution
\* coarser than that of the single-precision floats the shader computes with.
FloatScale == 2 ^ 16

ToUnit(byte) == (byte * FloatScale) \div 255

\* The byte an 8-bit normalised colour attachment stores for a component.
StoredByte(c) == (c * 255 + FloatScale \div 2) \div FloatScale

\* The pick_color uniform of pick id idx.
PickColorValue(idx) == [c \in 1..3 |-> ToUnit(PickColor(idx)[c])]

\* The pick id of the three bytes read back: r + (g << 8) + (b << 16).
PickId(pixel_data) == pixel_data[1] + pixel_data[2] * 256 + pixel_data[3] * 65536

\* Two pick ids through the encoding, the framebuffer and the decoding.
CodecOf(i, j) ==
    [a |-> i, b |-> j,
     ca |-> [c \in 1..3 |-> StoredByte(PickColorValue(i)[c])],
     cb |-> [c \in 1..3 |-> StoredByte(PickColorValue(j)[c])],
     da |-> PickId([c \in 1..3 |-> StoredByte(PickColorValue(i)[c])]),
     db |-> PickId([c \in 1..3 |-> StoredByte(PickColorValue(j)[c])])]

\* The record of a call that read no pixel.
NoPick == [read |-> FALSE, inview |-> FALSE, part |-> -1, pixel |-> <<0, 0, 0>>,
           result |-> None]

\* No draw call: the frame of a call that did not render.
NoFrame == <<>>

\* No placement: nothing has been handed to the transform builder.
NoPlaced == [leg |-> "none"]

\* Vector3([1.0, 1.0, 1.0]) in tenths.
UnitScale == [a \in Axes |-> 10]

\* ArcballCamera.__init__: distance in thousandths, angles in ten-thousandths
\* of a radian (math.radians(45.0) and math.radians(30.0)).
InitialCamera ==
    [distance |-> 12000, azimuth |-> 7854, elevation |-> 5236, is_rotating |-> FALSE]

\* self.vao = None
NoVao == [program |-> "none", releases |-> 0]

\* Framebuffer sizes of the window, in pixels; the window opens with the first.
InitialSize == <<2, 1>>

Sizes == {InitialSize, <<1, 1>>}

\* Mouse positions <<x, y>> in window coordinates: one inside every size
\* above, and positions left of, right of, below and above the window (a
\* press is delivered there while another button is held in a drag).
InsidePoints == {<<0, 0>>}

Points == InsidePoints \cup {<<-1, 0>>, <<2, 0>>, <<0, -1>>, <<0, 2>>}

\* Bytes a read outside the framebuffer may return: the values are undefined.
UndefinedPixels == {<<0, 0, 0>>, <<1, 0, 0>>, <<3, 0, 0>>}

\* How a pick ends: normally, or with a graphics error raised while the
\* framebuffer is allocated, while the parts are drawn, or while the pixel is read.
Outcomes == {"ok", "alloc", "draw", "read"}

ManagedResources == <<"vbo", "main_program", "pick_program">>

InitialAngles == [a \in Axes |-> 0]

\* A reset that leaves a quarter turn on y.
ResetAngles_quarter == [a \in Axes |-> IF a = "y" THEN 90 ELSE 0]

\* A reset that forgets the z axis.
ResetAngles_no_z == [a \in {"x", "y"} |-> 0]

ResetAngles == [a \in Axes |-> 0]

----------------------------------------------------------------------------
\* TableRenderer.__init__

\* The renderer's own fields, and the window it is constructed in.
InitRenderer ==
    /\ \E n \in 0..MaxLegs : legs = SubSeq(AllKeys, 1, n)
    /\ joints \in JointsFiles
    /\ joint_angles = [k \in KeysOf(legs) |-> InitialAngles]
    /\ selected_leg = IF Len(legs) > 0 THEN legs[1] ELSE None
    /\ pick_map = EmptyDict
    /\ error = "none"
    /\ rotations = 0
    /\ lastOp = [op |-> "init", axis |-> "-", degrees |-> 0, sel |-> None]
    /\ nextStart = None
    /\ nextCount = 0
    /\ viewport = InitialSize
    /\ pick_fbo = 0
    /\ fbos = <<>>
    /\ bound = 0
    /\ vao = NoVao
    /\ orphaned = FALSE
    /\ cleanups = 0
    /\ lastPick = NoPick
    /\ codec = CodecOf(1, 1)
    /\ window = "open"
    /\ frame = NoFrame
    /\ placed = NoPlaced
    /\ tabletop_scale = UnitScale
    /\ leg_scale = UnitScale
    /\ adjusts = 0
    /\ camera = InitialCamera
    /\ drags = 0
    /\ scrolls = 0

\* The state after a construction in which every acquisition succeeded.
Init ==
    /\ InitRenderer
    /\ resources = ManagedResources
    /\ releases = [r \in KeysOf(ManagedResources) |-> 0]

----------------------------------------------------------------------------
\* TableRenderer.rotate_selected (renderer.py)

\* A clamp that wraps around the range instead of saturating.
Clamp_wrap(min_limit, max_limit, v) ==
    IF v > max_limit THEN min_limit + (v - max_limit)
    ELSE IF v < min_limit THEN max_limit - (min_limit - v)
    ELSE v

Clamp(min_limit, max_limit, v) ==
    LET inner == IF max_limit < v THEN max_limit ELSE v
    IN  IF min_limit > inner THEN min_limit ELSE inner

\* A rotation that adds the delta without clamping.
RotatedAngle_unclamped(axis, degrees) ==
    joint_angles[selected_leg][axis] + degrees

\* A rotation that clamps the current angle and then adds the delta.
RotatedAngle_clampFirst(axis, degrees) ==
    LET limits == Get(Get(joints, selected_leg, EmptyDict), axis,
                      [min |-> DefaultMin, max |-> DefaultMax])
    IN  Clamp(Get(limits, "min", DefaultMin), Get(limits, "max", DefaultMax),
              joint_angles[selected_leg][axis]) + degrees

RotatedAngle(axis, degrees) ==
    LET limits    == Get(Get(joints, selected_leg, EmptyDict), axis,
                         [min |-> DefaultMin, max |-> DefaultMax])
        min_limit == Get(limits, "min", DefaultMin)
        max_limit == Get(limits, "max", DefaultMax)
        current   == joint_angles[selected_leg][axis]
    IN  Clamp(min_limit, max_limit, current + degrees)

\* A rotate that falls back to the first leg when nothing is selected.
rotate_selected_fallback(axis, degrees) ==
    /\ error = "none"
    /\ rotations < MaxRotations
    /\ IF ~Truthy(selected_leg)
       THEN IF Len(legs) = 0
            THEN UNCHANGED joint_angles
            ELSE joint_angles' =
                     [joint_angles EXCEPT ![legs[1]][axis] =
                         Clamp(DefaultMin, DefaultMax, joint_angles[legs[1]][axis] + degrees)]
       ELSE joint_angles' =
                [joint_angles EXCEPT ![selected_leg][axis] = RotatedAngle(axis, degrees)]
    /\ rotations' = rotations + 1
    /\ lastOp' = [op |-> "rotate", axis |-> axis, degrees |-> degrees,
                 sel |-> selected_leg]
    /\ nextCount' = 0
    /\ nextStart' = None
    /\ lastPick' = NoPick
    /\ frame' = NoFrame
    /\ UNCHANGED <<gpu, codec, placed, enhanced, legs, joints, selected_leg, pick_map, error>>

\* A rotate that turns the given axis of every leg to the selected leg's new angle.
rotate_selected_every_leg(axis, degrees) ==
    /\ error = "none"
    /\ rotations < MaxRotations
    /\ IF ~Truthy(selected_leg)
       THEN UNCHANGED joint_angles
       ELSE joint_angles' =
                [k \in DOMAIN joint_angles |->
                    [joint_angles[k] EXCEPT ![axis] = RotatedAngle(axis, degrees)]]
    /\ rotations' = rotations + 1
    /\ lastOp' = [op |-> "rotate", axis |-> axis, degrees |-> degrees,
                 sel |-> selected_leg]
    /\ nextCount' = 0
    /\ nextStart' = None
    /\ lastPick' = NoPick
    /\ frame' = NoFrame
    /\ UNCHANGED <<gpu, codec, placed, enhanced, legs, joints, selected_leg, pick_map, error>>

rotate_selected(axis, degrees) ==
    /\ error = "none"
    /\ rotations < MaxRotations
    /\ IF ~Truthy(selected_leg)
       THEN UNCHANGED joint_angles
       ELSE joint_angles' =
                [joint_angles EXCEPT ![selected_leg][axis] = RotatedAngle(axis, degrees)]
    /\ rotations' = rotations + 1
    /\ lastOp' = [op |-> "rotate", axis |-> axis, degrees |-> degrees,
                 sel |-> selected_leg]
    /\ nextCount' = 0
    /\ nextStart' = None
    /\ lastPick' = NoPick
    /\ frame' = NoFrame
    /\ UNCHANGED <<gpu, codec, placed, enhanced, legs, joints, selected_leg, pick_map, error>>

\* A reset that zeroes only the selected leg.
reset_joints_selected_only ==
    /\ error = "none"
    /\ joint_angles' = [k \in DOMAIN joint_angles |->
                            IF k = selected_leg THEN ResetAngles ELSE joint_angles[k]]
    /\ rotations' = 0
    /\ lastOp' = Op("reset")
    /\ nextCount' = 0
    /\ nextStart' = None
    /\ lastPick' = NoPick
    /\ frame' = NoFrame
    /\ UNCHANGED <<gpu, codec, placed, enhanced, legs, joints, selected_leg, pick_map, error>>

\* TableRenderer.reset_joints
reset_joints ==
    /\ error = "none"
    /\ joint_angles' = [k \in DOMAIN joint_angles |-> ResetAngles]
    /\ rotations' = 0
    /\ lastOp' = Op("reset")
    /\ nextCount' = 0
    /\ nextStart' = None
    /\ lastPick' = NoPick
    /\ frame' = NoFrame
    /\ UNCHANGED <<gpu, codec, placed, enhanced, legs, joints, selected_leg, pick_map, error>>

----------------------------------------------------------------------------
\* TableRenderer.select_next_leg / select_previous_leg

\* An advance that stops at the last leg instead of wrapping.
NextLeg_nowrap(keys, sel) ==
    IF ~Truthy(sel) \/ sel \notin KeysOf(keys)
    THEN keys[1]
    ELSE LET current_idx == IndexOf(keys, sel) - 1
             next_idx    == IF current_idx + 1 < Len(keys) THEN current_idx + 1
                                                           ELSE current_idx
         IN  keys[next_idx + 1]

\* An advance that steps past the scene's last leg into the keys of other scenes.
NextLeg_beyond(keys, sel) ==
    IF ~Truthy(sel) \/ sel \notin KeysOf(keys)
    THEN keys[1]
    ELSE LET current_idx == IndexOf(keys, sel) - 1
             next_idx    == current_idx + 1
         IN  AllKeys[next_idx + 1]

NextLeg(keys, sel) ==
    IF ~Truthy(sel) \/ sel \notin KeysOf(keys)
    THEN keys[1]
    ELSE LET current_idx == IndexOf(keys, sel) - 1
             next_idx    == (current_idx + 1) % Len(keys)
         IN  keys[next_idx + 1]

\* A retreat that takes the absolute value of the index instead of wrapping.
PreviousLeg_abs(keys, sel) ==
    IF ~Truthy(sel) \/ sel \notin KeysOf(keys)
    THEN keys[1]
    ELSE LET current_idx == IndexOf(keys, sel) - 1
             prev_idx    == (IF current_idx - 1 < 0 THEN 1 - current_idx
                                                    ELSE current_idx - 1) % Len(keys)
         IN  keys[prev_idx + 1]

\* A retreat that starts from the last leg when nothing valid is selected.
PreviousLeg_last(keys, sel) ==
    IF ~Truthy(sel) \/ sel \notin KeysOf(keys)
    THEN keys[Len(keys)]
    ELSE LET current_idx == IndexOf(keys, sel) - 1
             prev_idx    == (current_idx - 1) % Len(keys)
         IN  keys[prev_idx + 1]

PreviousLeg(keys, sel) ==
    IF ~Truthy(sel) \/ sel \notin KeysOf(keys)
    THEN keys[1]
    ELSE LET current_idx == IndexOf(keys, sel) - 1
             prev_idx    == (current_idx - 1) % Len(keys)
         IN  keys[prev_idx + 1]

\* A selectNext without the guard for an empty leg list: keys[0] raises.
select_next_leg_unguarded ==
    /\ error = "none"
    /\ IF Len(legs) = 0
       THEN error' = "IndexError" /\ UNCHANGED selected_leg
       ELSE selected_leg' = NextLeg(legs, selected_leg) /\ UNCHANGED error
    /\ lastOp' = Op("next")
    /\ IF nextCount = 0 \/ nextCount >= Len(legs)
       THEN nextStart' = selected_leg /\ nextCount' = 1
       ELSE nextStart' = nextStart /\ nextCount' = nextCount + 1
    /\ lastPick' = NoPick
    /\ frame' = NoFrame
    /\ UNCHANGED <<gpu, codec, placed, enhanced, legs, joints, joint_angles, pick_map, rotations>>

select_next_leg ==
    /\ error = "none"
    /\ IF Len(legs) = 0
       THEN UNCHANGED selected_leg
       ELSE selected_leg' = NextLeg(legs, selected_leg)
    /\ lastOp' = Op("next")
    /\ IF nextCount = 0 \/ nextCount >= Len(legs)
       THEN nextStart' = selected_leg /\ nextCount' = 1
       ELSE nextStart' = nextStart /\ nextCount' = nextCount + 1
    /\ lastPick' = NoPick
    /\ frame' = NoFrame
    /\ UNCHANGED <<gpu, codec, placed, enhanced, legs, joints, joint_angles, pick_map, error, rotations>>

\* A selectPrevious that also zeroes the angles of the leg it selects.
select_previous_leg_recentering ==
    /\ error = "none"
    /\ IF Len(legs) = 0
       THEN UNCHANGED <<selected_leg, joint_angles>>
       ELSE /\ selected_leg' = PreviousLeg(legs, selected_leg)
            /\ joint_angles' =
                   [joint_angles EXCEPT ![PreviousLeg(legs, selected_leg)] = ResetAngles]
    /\ lastOp' = Op("previous")
    /\ nextCount' = 0
    /\ nextStart' = None
    /\ lastPick' = NoPick
    /\ frame' = NoFrame
    /\ UNCHANGED <<gpu, codec, placed, enhanced, legs, joints, pick_map, error, rotations>>

select_previous_leg ==
    /\ error = "none"
    /\ IF Len(legs) = 0
       THEN UNCHANGED selected_leg
       ELSE selected_leg' = PreviousLeg(legs, selected_leg)
    /\ lastOp' = Op("previous")
    /\ nextCount' = 0
    /\ nextStart' = None
    /\ lastPick' = NoPick
    /\ frame' = NoFrame
    /\ UNCHANGED <<gpu, codec, placed, enhanced, legs, joints, joint_angles, pick_map, error, rotations>>

----------------------------------------------------------------------------
\* TableRenderer._ensure_pick_fbo

NeedNewFbo == IF pick_fbo = 0 THEN TRUE ELSE fbos[pick_fbo].size # viewport

\* A replacement that drops the old framebuffer without releasing it.
ReleasedOld_leak == fbos

\* self.pick_fbo.release() of the framebuffer about to be replaced.
ReleasedOld ==
    IF pick_fbo # 0 THEN [fbos EXCEPT ![pick_fbo].releases = @ + 1] ELSE fbos

EnsuredFbos ==
    IF NeedNewFbo
    THEN Append(ReleasedOld, [size |-> viewport, releases |-> 0])
    ELSE fbos

EnsuredPickFbo == IF NeedNewFbo THEN Len(fbos) + 1 ELSE pick_fbo

----------------------------------------------------------------------------
\* TableRenderer.pick.  The pixel read back is the stored colour of the part
\* the pick pass drew last at that pixel (part 0 is the tabletop or the
\* cleared background, part i the i-th leg) when the pixel lies inside the
\* framebuffer, and undefined bytes when it lies outside.

\* A mapping numbered from 0, as enumerate without its start argument gives.
BuiltPickMap_zero_based == [idx \in 0..(Len(legs) - 1) |-> legs[idx + 1]]

\* self.pick_map after the loop over the legs.
BuiltPickMap == [idx \in 1..Len(legs) |-> legs[idx]]

\* The pick_color uniform of a part.
PartColor(part) == IF part = 0 THEN <<0, 0, 0>> ELSE PickColorValue(part)

\* The three bytes the framebuffer holds where a part was drawn.
FbPixel(part) == [c \in 1..3 |-> StoredByte(PartColor(part)[c])]

InView(x, y) ==
    /\ 0 <= x /\ x < viewport[1]
    /\ 0 <= y /\ y < viewport[2]

\* fbo.read(viewport=(x, y, 1, 1), components=3)
PixelRead(x, y, part, garbage) == IF InView(x, y) THEN FbPixel(part) ELSE garbage

\* A lookup that falls back to the first leg for an id it does not know.
Picked_fallback(pixel_data) == Get(BuiltPickMap, PickId(pixel_data), legs[1])

\* self.pick_map.get(pick_id, None)
Picked(pixel_data) == Get(BuiltPickMap, PickId(pixel_data), None)

\* self.vao = self.ctx.simple_vertex_array(program, ...): the previous
\* vertex array is dropped, released or not.
VaoOrphaned == orphaned \/ (vao.program # "none" /\ vao.releases = 0)

\* A handler that keeps the selection when the pick returns None.
Selected_sticky(picked) == IF Truthy(picked) THEN picked ELSE selected_leg

\* The selection TableWindow.on_mouse_press stores for the result of pick.
Selected(picked) == IF Truthy(picked) THEN picked ELSE None

\* The body of pick for a scene with legs, with the handler's use of its result.
\* TableRenderer._get_camera_matrices: the aspect ratio of the projection,
\* width / max(1.0, height), as <<numerator, denominator>>, and the eye of
\* the view.
Aspect(width, height) == <<width, IF height > 1 THEN height ELSE 1>>

Eye == <<6, 6, 6>>

\* The draw calls of pick, in order: the tabletop in black, then every leg
\* in the colour of its pick id.
PickTabletopDraw ==
    [part |-> 0, of |-> "tabletop", angles |-> [a \in Axes |-> 0],
     color |-> PartColor(0), aspect |-> Aspect(viewport[1], viewport[2]), eye |-> Eye]

PickLegDraw(idx) ==
    [part |-> idx, of |-> legs[idx], angles |-> joint_angles[legs[idx]],
     color |-> PartColor(idx), aspect |-> Aspect(viewport[1], viewport[2]), eye |-> Eye]

\* A pick pass that draws the legs before the tabletop.
PickDrawList_legs_first ==
    [idx \in 1..Len(legs) |-> PickLegDraw(idx)] \o <<PickTabletopDraw>>

PickDrawList == <<PickTabletopDraw>> \o [idx \in 1..Len(legs) |-> PickLegDraw(idx)]

pick(x, y, part, garbage, outcome) ==
    /\ NeedNewFbo => Len(fbos) < MaxFbos
    /\ outcome = "alloc" => NeedNewFbo
    /\ IF outcome = "alloc"
       THEN /\ fbos' = ReleasedOld
            /\ error' = "Error"
            /\ lastPick' = NoPick
            /\ frame' = NoFrame
            /\ UNCHANGED <<pick_fbo, bound, vao, orphaned, pick_map, selected_leg>>
       ELSE /\ fbos' = EnsuredFbos
            /\ pick_fbo' = EnsuredPickFbo
            /\ vao' = [program |-> "pick", releases |-> 0]
            /\ orphaned' = VaoOrphaned
            /\ IF outcome = "draw"
               THEN /\ bound' = EnsuredPickFbo
                    /\ pick_map' = EmptyDict
                    /\ error' = "Error"
                    /\ lastPick' = NoPick
                    /\ frame' = NoFrame
                    /\ UNCHANGED selected_leg
               ELSE IF outcome = "read"
               THEN /\ bound' = EnsuredPickFbo
                    /\ pick_map' = BuiltPickMap
                    /\ error' = "Error"
                    /\ lastPick' = NoPick
                    /\ frame' = NoFrame
                    /\ UNCHANGED selected_leg
               ELSE LET pixel_data == PixelRead(x, y, part, garbage)
                        picked     == Picked(pixel_data)
                    IN  /\ bound' = 0
                        /\ pick_map' = BuiltPickMap
                        /\ lastPick' = [read   |-> TRUE,
                                        inview |-> InView(x, y),
                                        part   |-> IF InView(x, y) THEN part ELSE -1,
                                        pixel  |-> pixel_data,
                                        result |-> picked]
                        /\ frame' = PickDrawList
                        /\ selected_leg' = Selected(picked)
                        /\ UNCHANGED error

\* TableWindow.on_mouse_press
on_mouse_press(x, y, button, part, garbage, outcome) ==
    /\ error = "none"
    /\ window = "open"
    /\ cleanups = 0
    /\ IF button # "LEFT"
       THEN /\ lastPick' = NoPick
            /\ frame' = NoFrame
            /\ UNCHANGED <<pick_map, selected_leg, error, pick_fbo, fbos, bound,
                           vao, orphaned>>
       ELSE IF Len(legs) = 0
       THEN /\ lastPick' = NoPick
            /\ frame' = NoFrame
            /\ selected_leg' = None
            /\ UNCHANGED <<pick_map, error, pick_fbo, fbos, bound, vao, orphaned>>
       ELSE pick(x, viewport[2] - y - 1, part, garbage, outcome)
    /\ lastOp' = Op(IF button = "LEFT" THEN "click" ELSE "click_other")
    /\ nextCount' = 0
    /\ nextStart' = None
    /\ UNCHANGED <<legs, joints, joint_angles, rotations, codec, placed, enhanced, viewport,
                   resources, releases, cleanups, window>>

\* The mouse presses at the given points whose picks end in one of the given
\* ways: any button, with every part that may show at a pixel inside the
\* window and every value that may be read outside it.
Clicks(points, outcomes) ==
    \/ \E button \in Buttons \ {"LEFT"} :
           on_mouse_press(0, 0, button, 0, <<0, 0, 0>>, "ok")
    \/ /\ Len(legs) = 0
       /\ on_mouse_press(0, 0, "LEFT", 0, <<0, 0, 0>>, "ok")
    \/ /\ Len(legs) > 0
       /\ \E pt \in points, outcome \in outcomes :
              IF InView(pt[1], viewport[2] - pt[2] - 1)
              THEN \E part \in 0..Len(legs) :
                       on_mouse_press(pt[1], pt[2], "LEFT", part, <<0, 0, 0>>, outcome)
              ELSE \E garbage \in UndefinedPixels :
                       on_mouse_press(pt[1], pt[2], "LEFT", 0, garbage, outcome)

----------------------------------------------------------------------------
\* The session of the window on a graphics device whose calls succeed, with
\* the size as opened and every press inside the window.
Next ==
    \/ \E axis \in Axes, degrees \in Deltas : rotate_selected(axis, degrees)
    \/ reset_joints
    \/ select_next_leg
    \/ select_previous_leg
    \/ Clicks(InsidePoints, {"ok"})

Spec == Init /\ [][Next]_vars

----------------------------------------------------------------------------
\* TableWindow.on_draw and TableRenderer.render

\* The colours of the main pass, in hundredths: the tabletop's wood tone,
\* the selected leg's highlight tone and the other legs' neutral tone.
WoodTone == <<82, 60, 40>>

HighlightTone == <<98, 65, 25>>

NeutralTone == <<45, 38, 33>>

\* A main pass that highlights every leg.
LegColor_always(key) == HighlightTone

LegColor(key) == IF key = selected_leg THEN HighlightTone ELSE NeutralTone

\* A draw call with the uniforms uploaded before it: the colour, and the
\* matrices as the part they place and the angles they rotate it by.
TabletopDraw ==
    [part |-> 0, of |-> "tabletop", angles |-> [a \in Axes |-> 0], color |-> WoodTone,
     aspect |-> Aspect(viewport[1], viewport[2]), eye |-> Eye]

LegDraw(idx) ==
    [part |-> idx, of |-> legs[idx], angles |-> joint_angles[legs[idx]],
     color |-> LegColor(legs[idx]),
     aspect |-> Aspect(viewport[1], viewport[2]), eye |-> Eye]

\* A frame that draws the legs only.
DrawList_legs_only == [idx \in 1..Len(legs) |-> LegDraw(idx)]

\* The draw calls of render, in order.
DrawList == <<TabletopDraw>> \o [idx \in 1..Len(legs) |-> LegDraw(idx)]

\* A render that draws with whatever handles it holds.
RenderFails_never == FALSE

\* simple_vertex_array raises when given a released program or buffer.
RenderFails == releases["main_program"] > 0 \/ releases["vbo"] > 0

render ==
    /\ error = "none"
    /\ window = "open"
    /\ IF RenderFails
       THEN /\ error' = "Error"
            /\ frame' = NoFrame
            /\ UNCHANGED <<vao, orphaned>>
       ELSE /\ vao' = [program |-> "main", releases |-> 0]
            /\ orphaned' = VaoOrphaned
            /\ frame' = DrawList
            /\ UNCHANGED error
    /\ lastOp' = Op("render")
    /\ lastPick' = NoPick
    /\ nextCount' = 0
    /\ nextStart' = None
    /\ UNCHANGED <<legs, joints, joint_angles, selected_leg, pick_map,
                   rotations, codec, placed, enhanced, viewport, pick_fbo, fbos, bound, resources,
                   releases, cleanups, window>>

\* TableWindow.on_resize
on_resize(size) ==
    /\ error = "none"
    /\ window = "open"
    /\ cleanups = 0
    /\ size # viewport
    /\ viewport' = size
    /\ lastOp' = Op("resize")
    /\ lastPick' = NoPick
    /\ frame' = NoFrame
    /\ nextCount' = 0
    /\ nextStart' = None
    /\ UNCHANGED <<legs, joints, joint_angles, selected_leg, pick_map, error,
                   rotations, codec, placed, enhanced, pick_fbo, fbos, bound, vao, orphaned,
                   resources, releases, cleanups, window>>

----------------------------------------------------------------------------
\* GPUResourceManager.cleanup and TableRenderer.cleanup

\* release() on every registered resource.
ManagerReleased ==
    [r \in DOMAIN releases |->
        releases[r] + Cardinality({i \in 1..Len(resources) : resources[i] = r})]

\* A cleanup that keeps the list of resources.
ClearedResources_kept == resources

\* self._resources.clear()
ClearedResources == <<>>

\* The body of TableRenderer.cleanup.
cleanup_body ==
    /\ error = "none"
    /\ cleanups < MaxCleanups
    /\ vao' = IF vao.program # "none" THEN [vao EXCEPT !.releases = @ + 1] ELSE vao
    /\ fbos' = IF pick_fbo # 0 THEN [fbos EXCEPT ![pick_fbo].releases = @ + 1] ELSE fbos
    /\ releases' = ManagerReleased
    /\ resources' = ClearedResources
    /\ cleanups' = cleanups + 1
    /\ lastPick' = NoPick
    /\ frame' = NoFrame
    /\ nextCount' = 0
    /\ nextStart' = None
    /\ UNCHANGED <<legs, joints, joint_angles, selected_leg, pick_map, error,
                   rotations, codec, placed, enhanced, viewport, pick_fbo, bound, orphaned>>

\* TableRenderer.cleanup, called on its own.
cleanup ==
    /\ cleanup_body
    /\ lastOp' = Op("cleanup")
    /\ UNCHANGED window

----------------------------------------------------------------------------
\* GPUResourceManager.buffer and GPUResourceManager.program, entered by a
\* with statement.  An acquisition ends normally, or with an error raised by
\* the creation call of the context ("create"), or with an error raised in
\* the body of the with statement ("body").

AcquireOutcomes == {"ok", "create", "body"}

\* An error path that leaves the created handle live.
FailedHandle_leaked(r) == (r :> 0)

\* The handle created and then released by the except clause.
FailedHandle(r) == (r :> 1)

acquire(r, outcome) ==
    /\ error = "none"
    /\ r \notin DOMAIN releases
    /\ IF outcome = "create"
       THEN /\ error' = "Error"
            /\ UNCHANGED <<resources, releases>>
       ELSE IF outcome = "body"
       THEN /\ resources' = Append(resources, r)
            /\ releases' = releases @@ FailedHandle(r)
            /\ error' = "Error"
       ELSE /\ resources' = Append(resources, r)
            /\ releases' = releases @@ (r :> 0)
            /\ UNCHANGED error
    /\ lastPick' = NoPick
    /\ frame' = NoFrame
    /\ nextCount' = 0
    /\ nextStart' = None
    /\ UNCHANGED <<legs, joints, joint_angles, selected_leg, pick_map, rotations,
                   codec, placed, enhanced, viewport, pick_fbo, fbos, bound, vao, orphaned,
                   cleanups, window>>

buffer(outcome) ==
    /\ acquire("vbo", outcome)
    /\ lastOp' = Op("buffer")

program(r, outcome) ==
    /\ r \in {"main_program", "pick_program"}
    /\ acquire(r, outcome)
    /\ lastOp' = Op("program")

\* GPUResourceManager.cleanup, called by the owner of the manager, also from
\* the handler of an error that an acquisition raised.
manager_cleanup ==
    /\ cleanups < MaxCleanups
    /\ releases' = ManagerReleased
    /\ resources' = ClearedResources
    /\ cleanups' = cleanups + 1
    /\ lastOp' = Op("manager_cleanup")
    /\ lastPick' = NoPick
    /\ frame' = NoFrame
    /\ nextCount' = 0
    /\ nextStart' = None
    /\ UNCHANGED <<legs, joints, joint_angles, selected_leg, pick_map, error,
                   rotations, codec, placed, enhanced, viewport, pick_fbo, fbos, bound, vao,
                   orphaned, window>>

\* A client of a fresh manager: it acquires the buffer and the programs in
\* any order and cleans up at any time.
InitManager ==
    /\ InitRenderer
    /\ resources = <<>>
    /\ releases = EmptyDict

NextManager ==
    \/ \E outcome \in AcquireOutcomes : buffer(outcome)
    \/ \E r \in KeysOf(ManagedResources), outcome \in AcquireOutcomes : program(r, outcome)
    \/ manager_cleanup

SpecManager == InitManager /\ [][NextManager]_vars

----------------------------------------------------------------------------
\* The life of the window: TableWindow.__init__ constructs the context and
\* the renderer, the handlers run while the window is open, and the close
\* event or the Q/ESC key shuts it down.

\* What may fail to be created during construction: nothing, the context,
\* or one of the renderer's resources.
Failing == {"none", "context"} \cup KeysOf(ManagedResources)

\* The resources acquired before the one whose creation fails.
AcquiredBefore(failing) ==
    IF failing = "none" THEN ManagedResources
    ELSE IF failing = "context" THEN <<>>
    ELSE SubSeq(ManagedResources, 1, IndexOf(ManagedResources, failing) - 1)

\* TableWindow.__init__ after the window is created: on a failure the
\* except clause closes the window and re-raises.
construct(failing) ==
    /\ error = "none"
    /\ window = "open"
    /\ DOMAIN releases = {}
    /\ resources' = AcquiredBefore(failing)
    /\ releases' = [r \in KeysOf(AcquiredBefore(failing)) |-> 0]
    /\ error' = IF failing = "none" THEN "none" ELSE "Error"
    /\ window' = IF failing = "none" THEN "open" ELSE "closed"
    /\ lastOp' = Op("construct")
    /\ lastPick' = NoPick
    /\ frame' = NoFrame
    /\ nextCount' = 0
    /\ nextStart' = None
    /\ UNCHANGED <<legs, joints, joint_angles, selected_leg, pick_map, rotations,
                   codec, placed, enhanced, viewport, pick_fbo, fbos, bound, vao, orphaned, cleanups>>

\* The renderer exists and the window is open: handlers are dispatched.
Running ==
    /\ DOMAIN releases = KeysOf(ManagedResources)
    /\ error = "none"
    /\ window = "open"

\* TableWindow.on_close: cleanup, then pyglet's on_close closes the window.
on_close ==
    /\ Running
    /\ cleanup_body
    /\ window' = "closed"
    /\ lastOp' = Op("close")

\* TableWindow.on_key_press for Q and ESCAPE: self.close() destroys the
\* context without dispatching on_close, then the event loop exits.
on_key_press_quit ==
    /\ Running
    /\ window' = "closed"
    /\ lastOp' = Op("quit")
    /\ lastPick' = NoPick
    /\ frame' = NoFrame
    /\ nextCount' = 0
    /\ nextStart' = None
    /\ UNCHANGED <<legs, joints, joint_angles, selected_leg, pick_map, error,
                   rotations, codec, placed, enhanced, viewport, pick_fbo, fbos, bound, vao,
                   orphaned, resources, releases, cleanups>>

InitLife == InitManager

NextLife ==
    \/ \E failing \in Failing : construct(failing)
    \/ Running /\ rotate_selected("x", ROTATION_STEP)
    \/ Running /\ reset_joints
    \/ Running /\ select_next_leg
    \/ Running /\ select_previous_leg
    \/ Running /\ Clicks(InsidePoints, {"ok"})
    \/ Running /\ render
    \/ on_close
    \/ on_key_press_quit

SpecLife == InitLife /\ [][NextLife]_vars

----------------------------------------------------------------------------
\* The session of the window with rendering, resizing, presses inside and
\* outside the window, failing graphics calls and shutdown, on scenes of no
\* leg and of two legs, rotating by one key step about x.

InitGpu == Init /\ Len(legs) \in {0, 2}

NextGpu ==
    \/ rotate_selected("x", ROTATION_STEP)
    \/ reset_joints
    \/ select_next_leg
    \/ select_previous_leg
    \/ Clicks(Points, Outcomes)
    \/ render
    \/ \E size \in Sizes : on_resize(size)
    \/ cleanup

SpecGpu == InitGpu /\ [][NextGpu]_vars

----------------------------------------------------------------------------
\* The pick-id encoding on its own: pairs of leg indices from the 24-bit
\* range, around the byte boundaries and at both ends, are encoded as in the
\* loop of pick, stored in the framebuffer and decoded as after the read.

SampleIds == {1, 2, 3, 127, 128, 255, 256, 257, 511, 512, 65535, 65536, 65537,
              65792, 16711680, 16777214, 16777215}

encode_decode(i, j) ==
    /\ codec' = CodecOf(i, j)
    /\ UNCHANGED <<legs, joints, joint_angles, selected_leg, pick_map, error,
                   rotations, lastOp, nextStart, nextCount, gpu, lastPick, frame,
                   placed, enhanced>>

InitCodec == Init /\ Len(legs) = 0 /\ joints = NoJoints

NextCodec == \E i \in SampleIds, j \in SampleIds : encode_decode(i, j)

SpecCodec == InitCodec /\ [][NextCodec]_vars

----------------------------------------------------------------------------
\* The stand-alone TableRenderer of main_fixed.py: same construction, its own
\* rotate_selected, reset_joints and select_next_leg.

\* limits['min'] and limits['max'] raise KeyError when the entry lacks them.
FixedLimits(axis) ==
    Get(Get(joints, selected_leg, EmptyDict), axis,
        [min |-> DefaultMin, max |-> DefaultMax])

fixed_rotate_selected(axis, degrees) ==
    /\ error = "none"
    /\ rotations < MaxRotations
    /\ IF ~Truthy(selected_leg)
       THEN UNCHANGED <<joint_angles, error>>
       ELSE IF {"min", "max"} \subseteq DOMAIN FixedLimits(axis)
            THEN /\ joint_angles' =
                        [joint_angles EXCEPT ![selected_leg][axis] =
                            Clamp(FixedLimits(axis)["min"], FixedLimits(axis)["max"],
                                  joint_angles[selected_leg][axis] + degrees)]
                 /\ UNCHANGED error
            ELSE /\ error' = "KeyError"
                 /\ UNCHANGED joint_angles
    /\ rotations' = rotations + 1
    /\ lastOp' = [op |-> "rotate", axis |-> axis, degrees |-> degrees,
                 sel |-> selected_leg]
    /\ lastPick' = NoPick
    /\ frame' = NoFrame
    /\ UNCHANGED <<gpu, codec, placed, enhanced, legs, joints, selected_leg, pick_map, nextStart, nextCount>>

fixed_reset_joints ==
    /\ error = "none"
    /\ joint_angles' = [k \in DOMAIN joint_angles |-> [a \in Axes |-> 0]]
    /\ rotations' = 0
    /\ lastOp' = Op("reset")
    /\ lastPick' = NoPick
    /\ frame' = NoFrame
    /\ UNCHANGED <<gpu, codec, placed, enhanced, legs, joints, selected_leg, pick_map, error, nextStart, nextCount>>

fixed_select_next_leg ==
    /\ error = "none"
    /\ IF Len(legs) = 0
       THEN UNCHANGED selected_leg
       ELSE IF ~Truthy(selected_leg) \/ selected_leg \notin KeysOf(legs)
            THEN selected_leg' = legs[1]
            ELSE selected_leg' = legs[((IndexOf(legs, selected_leg) - 1 + 1) % Len(legs)) + 1]
    /\ lastOp' = Op("next")
    /\ lastPick' = NoPick
    /\ frame' = NoFrame
    /\ UNCHANGED <<gpu, codec, placed, enhanced, legs, joints, joint_angles, pick_map, error, rotations,
                   nextStart, nextCount>>

\* Framebuffer sizes handed to render by on_draw: the sizes of the window,
\* and the size of a window without height.
FixedSizes == Sizes \cup {<<2, 0>>}

\* aspect = width / height
FixedAspect(width, height) == <<width, height>>

\* The draw calls of main_fixed's render, in order.
FixedDrawList(width, height) ==
    [i \in 1..(Len(legs) + 1) |->
        IF i = 1
        THEN [part |-> 0, of |-> "tabletop", angles |-> [a \in Axes |-> 0],
              color |-> WoodTone, aspect |-> FixedAspect(width, height), eye |-> Eye]
        ELSE [part |-> i - 1, of |-> legs[i - 1], angles |-> joint_angles[legs[i - 1]],
              color |-> LegColor(legs[i - 1]),
              aspect |-> FixedAspect(width, height), eye |-> Eye]]

\* TableWindow.on_draw and TableRenderer.render of main_fixed.py: the
\* division by a height of 0 raises ZeroDivisionError before anything is drawn.
fixed_on_draw(size) ==
    /\ error = "none"
    /\ viewport' = size
    /\ IF size[2] = 0
       THEN /\ error' = "ZeroDivisionError"
            /\ frame' = NoFrame
            /\ UNCHANGED <<vao, orphaned>>
       ELSE /\ vao' = [program |-> "main", releases |-> 0]
            /\ orphaned' = VaoOrphaned
            /\ frame' = FixedDrawList(size[1], size[2])
            /\ UNCHANGED error
    /\ lastOp' = Op("render")
    /\ lastPick' = NoPick
    /\ UNCHANGED <<legs, joints, joint_angles, selected_leg, pick_map, rotations,
                   nextStart, nextCount, codec, placed, enhanced, pick_fbo, fbos,
                   bound, resources, releases, cleanups, window>>

NextFixed ==
    \/ \E axis \in Axes, degrees \in Deltas : fixed_rotate_selected(axis, degrees)
    \/ fixed_reset_joints
    \/ fixed_select_next_leg

SpecFixed == Init /\ [][NextFixed]_vars

\* The window of main_fixed.py on a scene without legs or with two: the keys
\* N, R and X, and the draws of a window that is resized between them.
InitFixedWindow == Init /\ Len(legs) \in {0, 2}

NextFixedWindow ==
    \/ fixed_rotate_selected("x", ROTATION_STEP)
    \/ fixed_reset_joints
    \/ fixed_select_next_leg
    \/ \E size \in FixedSizes : fixed_on_draw(size)

SpecFixedWindow == InitFixedWindow /\ [][NextFixedWindow]_vars

----------------------------------------------------------------------------
\* EnhancedTableRenderer of main_enhanced_fixed.py: its own rotate_selected,
\* reset_joints and select_next_leg, and the scales of the tabletop and the
\* legs. Scales and their deltas are in tenths.

MaxAdjusts == 2

\* limits['min'] and limits['max'] raise KeyError when the entry lacks them.
EnhancedLimits(axis) ==
    Get(Get(joints, selected_leg, EmptyDict), axis,
        [min |-> DefaultMin, max |-> DefaultMax])

enhanced_rotate_selected(axis, degrees) ==
    /\ error = "none"
    /\ rotations < MaxRotations
    /\ IF ~Truthy(selected_leg)
       THEN UNCHANGED <<joint_angles, error>>
       ELSE IF {"min", "max"} \subseteq DOMAIN EnhancedLimits(axis)
            THEN /\ joint_angles' =
                        [joint_angles EXCEPT ![selected_leg][axis] =
                            Clamp(EnhancedLimits(axis)["min"], EnhancedLimits(axis)["max"],
                                  joint_angles[selected_leg][axis] + degrees)]
                 /\ UNCHANGED error
            ELSE /\ error' = "KeyError"
                 /\ UNCHANGED joint_angles
    /\ rotations' = rotations + 1
    /\ lastOp' = [op |-> "rotate", axis |-> axis, degrees |-> degrees,
                 sel |-> selected_leg]
    /\ lastPick' = NoPick
    /\ frame' = NoFrame
    /\ UNCHANGED <<gpu, codec, placed, enhanced, legs, joints, selected_leg, pick_map,
                   nextStart, nextCount>>

enhanced_reset_joints ==
    /\ error = "none"
    /\ joint_angles' = [k \in DOMAIN joint_angles |-> [a \in Axes |-> 0]]
    /\ rotations' = 0
    /\ lastOp' = Op("reset")
    /\ lastPick' = NoPick
    /\ frame' = NoFrame
    /\ UNCHANGED <<gpu, codec, placed, enhanced, legs, joints, selected_leg, pick_map,
                   error, nextStart, nextCount>>

enhanced_select_next_leg ==
    /\ error = "none"
    /\ IF Len(legs) = 0
       THEN UNCHANGED selected_leg
       ELSE IF ~Truthy(selected_leg) \/ selected_leg \notin KeysOf(legs)
            THEN selected_leg' = legs[1]
            ELSE selected_leg' = legs[((IndexOf(legs, selected_leg) - 1 + 1) % Len(legs)) + 1]
    /\ lastOp' = Op("next")
    /\ lastPick' = NoPick
    /\ frame' = NoFrame
    /\ UNCHANGED <<gpu, codec, placed, enhanced, legs, joints, joint_angles, pick_map,
                   error, rotations, nextStart, nextCount>>

\* The axes an adjust call may name, one of them unknown, and its deltas:
\* the window's steps of 0.1 and steps that overshoot both ends.
AdjustAxes == Axes \cup {"w"}

AdjustDeltas == {1, -1, 25, -25}

\* The bounds of the two scales: 0.5 and 3.0, 0.3 and 2.0.
TabletopScaleMin == 5

TabletopScaleMax == 30

LegScaleMin == 3

LegScaleMax == 20

\* An adjusted scale: the named axis moved by delta and saturated, the
\* other axes kept; a scale unchanged for an axis that is not x, y or z.
Adjusted_unclamped(scale, axis, delta, lo, hi) ==
    IF axis \in Axes THEN [scale EXCEPT ![axis] = scale[axis] + delta] ELSE scale

Adjusted(scale, axis, delta, lo, hi) ==
    IF axis \in Axes
    THEN [scale EXCEPT ![axis] = Clamp(lo, hi, scale[axis] + delta)]
    ELSE scale

\* EnhancedTableRenderer.adjust_tabletop_size
adjust_tabletop_size(axis, delta) ==
    /\ error = "none"
    /\ adjusts < MaxAdjusts
    /\ tabletop_scale' =
           Adjusted(tabletop_scale, axis, delta, TabletopScaleMin, TabletopScaleMax)
    /\ adjusts' = adjusts + 1
    /\ lastOp' = [op |-> "adjust_tabletop", axis |-> axis, degrees |-> delta,
                 sel |-> selected_leg]
    /\ lastPick' = NoPick
    /\ frame' = NoFrame
    /\ UNCHANGED <<gpu, codec, placed, legs, joints, joint_angles, selected_leg,
                   pick_map, error, rotations, nextStart, nextCount, leg_scale,
                   camera, drags, scrolls>>

\* EnhancedTableRenderer.adjust_leg_size
adjust_leg_size(axis, delta) ==
    /\ error = "none"
    /\ adjusts < MaxAdjusts
    /\ leg_scale' = Adjusted(leg_scale, axis, delta, LegScaleMin, LegScaleMax)
    /\ adjusts' = adjusts + 1
    /\ lastOp' = [op |-> "adjust_leg", axis |-> axis, degrees |-> delta,
                 sel |-> selected_leg]
    /\ lastPick' = NoPick
    /\ frame' = NoFrame
    /\ UNCHANGED <<gpu, codec, placed, legs, joints, joint_angles, selected_leg,
                   pick_map, error, rotations, nextStart, nextCount, tabletop_scale,
                   camera, drags, scrolls>>

\* EnhancedTableRenderer.reset_tabletop
reset_tabletop ==
    /\ error = "none"
    /\ tabletop_scale' = UnitScale
    /\ leg_scale' = UnitScale
    /\ adjusts' = 0
    /\ lastOp' = Op("reset_tabletop")
    /\ lastPick' = NoPick
    /\ frame' = NoFrame
    /\ UNCHANGED <<gpu, codec, placed, legs, joints, joint_angles, selected_leg,
                   pick_map, error, rotations, nextStart, nextCount,
                   camera, drags, scrolls>>

InitEnhanced == Init /\ Len(legs) \in {0, 2}

NextEnhanced ==
    \/ enhanced_rotate_selected("x", ROTATION_STEP)
    \/ enhanced_reset_joints
    \/ enhanced_select_next_leg
    \/ \E axis \in AdjustAxes, delta \in AdjustDeltas : adjust_tabletop_size(axis, delta)
    \/ \E axis \in AdjustAxes, delta \in AdjustDeltas : adjust_leg_size(axis, delta)
    \/ reset_tabletop

SpecEnhanced == InitEnhanced /\ [][NextEnhanced]_vars

----------------------------------------------------------------------------
\* ArcballCamera of main_enhanced_fixed.py and the mouse handlers of
\* EnhancedTableWindow that drive it. The distance is in thousandths, the
\* angles are in ten-thousandths of a radian.

MaxDrags == 2

MaxScrolls == 8

\* pyglet.window.mouse.LEFT, MIDDLE and RIGHT
MouseLeft == 1

MouseMiddle == 2

MouseRight == 4

MouseButtons == {MouseLeft, MouseMiddle, MouseRight}

\* The buttons value of a drag: the buttons held, added up.
DragButtons == MouseButtons \cup {MouseLeft + MouseRight}

\* Mouse movements of a drag in pixels, and wheel movements of a scroll.
DragMoves == {-200, 0, 200}

ScrollMoves == {-1, 0, 1}

\* self.min_distance and self.max_distance
MinDistance == 3000

MaxDistance == 30000

\* self.min_elevation and self.max_elevation: math.radians(-89.0) and
\* math.radians(89.0)
MinElevation == -15533

MaxElevation == 15533

\* sensitivity = 0.01 radians for a pixel
DragSensitivity == 100

\* A mouse event handled last: its name and its button or buttons value.
CameraOp(name, button) ==
    [op |-> name, axis |-> "-", degrees |-> 0, sel |-> selected_leg,
     button |-> button]

\* Whether handle_mouse_drag turns the camera for a buttons value.
Turns_any_button(button) == TRUE

Turns(button) ==
    button = MouseRight \/ (button = MouseLeft /\ camera.is_rotating)

\* EnhancedTableWindow.on_mouse_drag and ArcballCamera.handle_mouse_drag
handle_mouse_drag(dx, dy, button) ==
    /\ drags < MaxDrags
    /\ camera' =
           IF Turns(button)
           THEN [camera EXCEPT
                    !.azimuth = camera.azimuth - dx * DragSensitivity,
                    !.elevation = Clamp(MinElevation, MaxElevation,
                                        camera.elevation + dy * DragSensitivity)]
           ELSE camera
    /\ drags' = drags + 1
    /\ lastOp' = CameraOp("drag", button)
    /\ UNCHANGED <<legs, joints, joint_angles, selected_leg, pick_map, error,
                   rotations, nextStart, nextCount, gpu, lastPick, codec, frame,
                   placed, tabletop_scale, leg_scale, adjusts, scrolls>>

\* The distance after a wheel movement: divided by 1.2, multiplied by 1.2
\* or kept, before it is saturated.
Zoomed(scroll_y) ==
    IF scroll_y > 0 THEN (camera.distance * 10) \div 12
    ELSE IF scroll_y < 0 THEN (camera.distance * 12) \div 10
    ELSE camera.distance

\* EnhancedTableWindow.on_mouse_scroll and ArcballCamera.handle_mouse_scroll
handle_mouse_scroll(scroll_y) ==
    /\ scrolls < MaxScrolls
    /\ camera' = [camera EXCEPT
                     !.distance = Clamp(MinDistance, MaxDistance, Zoomed(scroll_y))]
    /\ scrolls' = scrolls + 1
    /\ lastOp' = CameraOp("scroll", 0)
    /\ UNCHANGED <<legs, joints, joint_angles, selected_leg, pick_map, error,
                   rotations, nextStart, nextCount, gpu, lastPick, codec, frame,
                   placed, tabletop_scale, leg_scale, adjusts, drags>>

\* EnhancedTableWindow.on_mouse_press and ArcballCamera.handle_mouse_press
handle_mouse_press(button, ctrl) ==
    /\ camera' =
           IF (button = MouseLeft /\ ctrl) \/ button = MouseRight
           THEN [camera EXCEPT !.is_rotating = TRUE]
           ELSE camera
    /\ lastOp' = CameraOp("press", button)
    /\ UNCHANGED <<legs, joints, joint_angles, selected_leg, pick_map, error,
                   rotations, nextStart, nextCount, gpu, lastPick, codec, frame,
                   placed, tabletop_scale, leg_scale, adjusts, drags, scrolls>>

\* EnhancedTableWindow.on_mouse_release and ArcballCamera.handle_mouse_release
handle_mouse_release(button) ==
    /\ camera' =
           IF button \in {MouseLeft, MouseRight}
           THEN [camera EXCEPT !.is_rotating = FALSE]
           ELSE camera
    /\ lastOp' = CameraOp("release", button)
    /\ UNCHANGED <<legs, joints, joint_angles, selected_leg, pick_map, error,
                   rotations, nextStart, nextCount, gpu, lastPick, codec, frame,
                   placed, tabletop_scale, leg_scale, adjusts, drags, scrolls>>

InitCamera == Init /\ Len(legs) = 0 /\ joints = NoJoints

NextCamera ==
    \/ \E button \in MouseButtons, ctrl \in BOOLEAN : handle_mouse_press(button, ctrl)
    \/ \E button \in MouseButtons : handle_mouse_release(button)
    \/ \E dx \in DragMoves, dy \in DragMoves, button \in DragButtons :
           handle_mouse_drag(dx, dy, button)
    \/ \E scroll_y \in ScrollMoves : handle_mouse_scroll(scroll_y)

SpecCamera == InitCamera /\ [][NextCamera]_vars

----------------------------------------------------------------------------
\* The model matrices of render and pick (renderer.py, main_fixed.py,
\* main_enhanced_fixed.py). A matrix is the 4x4 array pyrr holds, row by row.
\* Lengths are whole numbers and angles are quarter turns, so that every entry
\* is a whole number; a leg's height is even, so that size.y / 2.0 is whole.

\* numpy.dot of two 4x4 arrays, which is pyrr's matrix44.multiply(m1, m2).
Dot(m1, m2) ==
    LET e(i, j) == m1[i][1] * m2[1][j] + m1[i][2] * m2[2][j]
                       + m1[i][3] * m2[3][j] + m1[i][4] * m2[4][j]
    IN  <<<<e(1, 1), e(1, 2), e(1, 3), e(1, 4)>>,
          <<e(2, 1), e(2, 2), e(2, 3), e(2, 4)>>,
          <<e(3, 1), e(3, 2), e(3, 3), e(3, 4)>>,
          <<e(4, 1), e(4, 2), e(4, 3), e(4, 4)>>>>

\* Matrix44.__mul__: a * b is matrix44.multiply(b, a).
Mul(a, b) == Dot(b, a)

\* a * b * ... * z as Python evaluates it, from the left.
RECURSIVE Product(_)
Product(ms) ==
    IF Len(ms) = 1 THEN ms[1]
    ELSE Mul(Product(SubSeq(ms, 1, Len(ms) - 1)), ms[Len(ms)])

\* Matrix44.from_translation: the vector in the last row of the array.
from_translation(v) ==
    <<<<1, 0, 0, 0>>, <<0, 1, 0, 0>>, <<0, 0, 1, 0>>, <<v[1], v[2], v[3], 1>>>>

\* Matrix44.from_scale
from_scale(v) ==
    <<<<v[1], 0, 0, 0>>, <<0, v[2], 0, 0>>, <<0, 0, v[3], 0>>, <<0, 0, 0, 1>>>>

\* math.radians followed by cos and sin, for quarter turns.
QuarterTurns == {0, 90, -90, 180}

CosDeg(d) == IF d % 360 = 0 THEN 1 ELSE IF d % 360 = 180 THEN -1 ELSE 0

SinDeg(d) == IF d % 360 = 90 THEN 1 ELSE IF d % 360 = 270 THEN -1 ELSE 0

\* Matrix44.from_x_rotation, from_y_rotation, from_z_rotation
from_x_rotation(d) ==
    <<<<1, 0, 0, 0>>, <<0, CosDeg(d), -SinDeg(d), 0>>,
      <<0, SinDeg(d), CosDeg(d), 0>>, <<0, 0, 0, 1>>>>

from_y_rotation(d) ==
    <<<<CosDeg(d), 0, SinDeg(d), 0>>, <<0, 1, 0, 0>>,
      <<-SinDeg(d), 0, CosDeg(d), 0>>, <<0, 0, 0, 1>>>>

from_z_rotation(d) ==
    <<<<CosDeg(d), -SinDeg(d), 0, 0>>, <<SinDeg(d), CosDeg(d), 0, 0>>,
      <<0, 0, 1, 0>>, <<0, 0, 0, 1>>>>

\* The vertex shader's model * vec4(in_position, 1.0): the array is uploaded
\* row by row and read by GLSL column by column, so the shader multiplies the
\* transposed array by the column vector. A vertex is <<x, y, z, w>>.
Apply(m, v) ==
    LET e(j) == v[1] * m[1][j] + v[2] * m[2][j] + v[3] * m[3][j] + v[4] * m[4][j]
    IN  <<e(1), e(2), e(3), e(4)>>

\* Four corners of the unit cube, (+-0.5, +-0.5, +-0.5), with w = 2.
CubeCorners == {<<1, 1, 1, 2>>, <<-1, 1, -1, 2>>, <<1, -1, -1, 2>>, <<-1, -1, 1, 2>>}

\* model_tt of render and pick
tabletop_transform(tt) == Mul(from_translation(tt.position), from_scale(tt.size))

\* A builder that multiplies the three rotations as X, Y, Z.
create_leg_transform_xyz(tt, leg, angles) ==
    Product(<<from_translation(tt.position),
              from_translation(<<leg.offset[1], 0, leg.offset[3]>>),
              from_x_rotation(angles["x"]),
              from_y_rotation(angles["y"]),
              from_z_rotation(angles["z"]),
              from_translation(<<0, -(leg.size[2] \div 2), 0>>),
              from_scale(leg.size)>>)

\* TableRenderer._create_leg_transform
create_leg_transform(tt, leg, angles) ==
    Product(<<from_translation(tt.position),
              from_translation(<<leg.offset[1], 0, leg.offset[3]>>),
              from_z_rotation(angles["z"]),
              from_y_rotation(angles["y"]),
              from_x_rotation(angles["x"]),
              from_translation(<<0, -(leg.size[2] \div 2), 0>>),
              from_scale(leg.size)>>)

\* model_leg of TableRenderer.render in main_fixed.py
fixed_leg_transform(tt, leg, angles) ==
    Product(<<from_translation(tt.position),
              from_translation(<<leg.offset[1], 0, leg.offset[3]>>),
              from_z_rotation(angles["z"]),
              from_y_rotation(angles["y"]),
              from_x_rotation(angles["x"]),
              from_translation(<<0, -(leg.size[2] \div 2), 0>>),
              from_scale(leg.size)>>)

\* A vector times a scale in tenths, component by component.
Scaled(v, scale) ==
    <<(v[1] * scale["x"]) \div 10, (v[2] * scale["y"]) \div 10, (v[3] * scale["z"]) \div 10>>

\* model_tt of EnhancedTableRenderer.render
enhanced_tabletop_transform(tt, ts) ==
    Mul(from_translation(tt.position), from_scale(Scaled(tt.size, ts)))

\* model_leg of EnhancedTableRenderer.render
enhanced_leg_transform(tt, leg, angles, ts, ls) ==
    Product(<<from_translation(tt.position),
              from_translation(Scaled(leg.offset, ts)),
              from_z_rotation(angles["z"]),
              from_y_rotation(angles["y"]),
              from_x_rotation(angles["x"]),
              from_translation(<<0, -(Scaled(leg.size, ls)[2] \div 2), 0>>),
              from_scale(Scaled(leg.size, ls))>>)

\* The shapes and scales the builders are run on.
Tabletops == {[position |-> <<0, 2, 0>>, size |-> <<4, 1, 2>>]}

LegConfigs ==
    {[key |-> "A", offset |-> o, size |-> sz] :
        o \in {<<1, 0, -1>>, <<1, 2, -1>>}, sz \in {<<1, 2, 1>>, <<2, 4, 1>>}}

JointAngles == [Axes -> QuarterTurns]

Scales == {UnitScale, [a \in Axes |-> IF a = "y" THEN 10 ELSE 20]}

\* One pass of the three variants' transform builders over the same shapes,
\* joint angles and scales, each pass on inputs of its own.
build_transforms(tt, leg, angles, ts, ls) ==
    /\ placed = NoPlaced
    /\ placed' = [leg |-> leg.key, tabletop |-> tt, offset |-> leg.offset,
                  size |-> leg.size, angles |-> angles,
                  tabletop_scale |-> ts, leg_scale |-> ls,
                  model_tt |-> tabletop_transform(tt),
                  model_leg |-> create_leg_transform(tt, leg, angles),
                  fixed_model_leg |-> fixed_leg_transform(tt, leg, angles),
                  enhanced_model_tt |-> enhanced_tabletop_transform(tt, ts),
                  enhanced_model_leg |-> enhanced_leg_transform(tt, leg, angles, ts, ls)]
    /\ UNCHANGED <<legs, joints, joint_angles, selected_leg, pick_map, error,
                   rotations, lastOp, nextStart, nextCount, gpu, lastPick, codec,
                   frame, enhanced>>

InitTransform == Init /\ Len(legs) = 0 /\ joints = NoJoints

NextTransform ==
    \E tt \in Tabletops, leg \in LegConfigs, angles \in JointAngles,
       ts \in Scales, ls \in Scales : build_transforms(tt, leg, angles, ts, ls)

SpecTransform == InitTransform /\ [][NextTransform]_vars

----------------------------------------------------------------------------
\* The limit range of a leg and axis as the data model defines it: the
\* JointLimits entry, or [-360, 360] where there is none.

HasLimit(L, a, which) ==
    /\ L \in DOMAIN joints
    /\ a \in DOMAIN joints[L]
    /\ which \in DOMAIN joints[L][a]

limit_min(L, a) == IF HasLimit(L, a, "min") THEN joints[L][a]["min"] ELSE -360

limit_max(L, a) == IF HasLimit(L, a, "max") THEN joints[L][a]["max"] ELSE 360

InRange(angles, L, a) ==
    limit_min(L, a) <= angles[L][a] /\ angles[L][a] <= limit_max(L, a)

RangeContainsZero(L, a) == limit_min(L, a) <= 0 /\ 0 <= limit_max(L, a)

Saturate(lo, hi, v) == IF v < lo THEN lo ELSE IF v > hi THEN hi ELSE v

PosOf(k) == CHOOSE i \in 1..Len(legs) : legs[i] = k

----------------------------------------------------------------------------
\* C1 (as stated): after a rotate call, every leg's angle on every axis lies
\* within that leg/axis's limit range.
C1_Original ==
    lastOp.op = "rotate" =>
        \A L \in KeysOf(legs), a \in Axes : InRange(joint_angles, L, a)

\* C1 (amended): in every reachable state, for every leg and axis whose limit
\* range contains 0, the stored angle lies within the limit range.
C1_AnglesWithinLimits ==
    \A L \in KeysOf(legs), a \in Axes :
        RangeContainsZero(L, a) => InRange(joint_angles, L, a)

\* A rotate by 400 has just saturated the selected leg's angle at its upper limit.
C1_Witness ==
    /\ lastOp.op = "rotate"
    /\ lastOp.degrees = 400
    /\ Truthy(selected_leg)
    /\ RangeContainsZero(selected_leg, lastOp.axis)
    /\ joint_angles[selected_leg][lastOp.axis] = limit_max(selected_leg, lastOp.axis)

\* C2 (as stated): after resetJoints every leg's angle on every axis is
\* within that leg/axis's limit range.
C2_Original ==
    lastOp.op = "reset" =>
        \A a \in Axes, L \in KeysOf(legs) : InRange(joint_angles, L, a)

\* C2 (amended): every step that mutates the joint angles, and every
\* resetJoints, leaves each angle whose limit range contains 0 within range.
C2_MutationsKeepLimits ==
    [][(joint_angles' # joint_angles \/ lastOp'.op = "reset") =>
          \A L \in KeysOf(legs), a \in Axes :
              RangeContainsZero(L, a) => InRange(joint_angles', L, a)]_vars

\* resetJoints has just run in a scene whose joints file gives leg B a range
\* on x that excludes 0 and leg A ranges that contain 0.
C2_Witness ==
    /\ lastOp.op = "reset"
    /\ Len(legs) >= 2
    /\ joints = SomeJoints
    /\ RangeContainsZero("A", "x")
    /\ ~RangeContainsZero("B", "x")

\* C3: a rotate with a leg selected stores exactly the sum of the current
\* angle and the delta when the sum is inside the limit range, and the nearer
\* bound otherwise.
C3_RotateClamps ==
    [][(lastOp'.op = "rotate" /\ Truthy(selected_leg)) =>
          joint_angles'[selected_leg][lastOp'.axis] =
              Saturate(limit_min(selected_leg, lastOp'.axis),
                       limit_max(selected_leg, lastOp'.axis),
                       joint_angles[selected_leg][lastOp'.axis] + lastOp'.degrees)]_vars

\* Leg A's x angle is -5 right after a rotate by -10, i.e. after +5 then -10.
C3_Witness ==
    /\ Len(legs) >= 1
    /\ lastOp = [op |-> "rotate", axis |-> "x", degrees |-> -10, sel |-> "A"]
    /\ joint_angles["A"]["x"] = -5

\* C4: a rotate with a positive delta on an axis whose angle equals the upper
\* limit leaves the angle unchanged, and so does a negative delta at the
\* lower limit.
C4_IdempotentAtBoundary ==
    [][(lastOp'.op = "rotate" /\ Truthy(selected_leg)) =>
          LET a   == lastOp'.axis
              cur == joint_angles[selected_leg][a]
          IN  /\ (cur = limit_max(selected_leg, a) /\ lastOp'.degrees > 0) =>
                     joint_angles'[selected_leg][a] = cur
              /\ (cur = limit_min(selected_leg, a) /\ lastOp'.degrees < 0) =>
                     joint_angles'[selected_leg][a] = cur]_vars

\* A rotate by +5 has just run on an axis that was already at the default
\* upper limit 360.
C4_Witness ==
    /\ lastOp.op = "rotate"
    /\ lastOp.degrees = ROTATION_STEP
    /\ rotations = 2
    /\ Truthy(selected_leg)
    /\ limit_max(selected_leg, lastOp.axis) = 360
    /\ joint_angles[selected_leg][lastOp.axis] = 360

\* C5: rotate never fails on a missing limit: it stores the sum saturated to
\* the range in which a missing lower bound is -360 and a missing upper bound
\* is 360.
C5_DefaultsNeverFail ==
    [][(lastOp'.op = "rotate" /\ Truthy(selected_leg)) =>
          /\ error' = "none"
          /\ joint_angles'[selected_leg][lastOp'.axis] =
                 Saturate(limit_min(selected_leg, lastOp'.axis),
                          limit_max(selected_leg, lastOp'.axis),
                          joint_angles[selected_leg][lastOp'.axis] + lastOp'.degrees)]_vars

\* C6: a rotate with no leg selected changes neither the joint angles nor
\* the selection.
C6_RotateWithoutSelection ==
    [][(lastOp'.op = "rotate" /\ ~Truthy(selected_leg)) =>
          (joint_angles' = joint_angles /\ selected_leg' = selected_leg)]_vars

\* A rotate has just run with nothing selected in a scene that has legs.
C6_Witness ==
    /\ lastOp.op = "rotate"
    /\ lastOp.sel = None
    /\ selected_leg = None
    /\ Len(legs) >= 1

\* C7: right after resetJoints every leg of the scene has the angles (0,0,0).
C7_ResetZeroes ==
    lastOp.op = "reset" =>
        /\ DOMAIN joint_angles = KeysOf(legs)
        /\ \A L \in KeysOf(legs) : joint_angles[L] = [x |-> 0, y |-> 0, z |-> 0]

\* resetJoints has just run with no leg selected in a scene of several legs.
C7_Witness ==
    /\ lastOp.op = "reset"
    /\ lastOp.sel = None
    /\ Len(legs) >= 2

\* C8: after a run of N consecutive selectNext calls that started with a leg
\* selected, N the number of legs, the selection is the leg it started from.
C8_CyclicClosure ==
    (Len(legs) >= 1 /\ nextCount = Len(legs) /\ nextStart \in KeysOf(legs)) =>
        selected_leg = nextStart

\* Three selectNext calls in a row have gone round a scene of three legs.
C8_Witness ==
    /\ Len(legs) = 3
    /\ nextCount = 3
    /\ nextStart = legs[2]
    /\ selected_leg = legs[2]

\* C9: from a valid selection at position i, selectNext selects position i+1,
\* wrapping from the last leg to the first, and selectPrevious position i-1,
\* wrapping from the first leg to the last.
C9_CyclicNeighbours ==
    lastOp.sel \in KeysOf(legs) =>
        LET i == PosOf(lastOp.sel)
            N == Len(legs)
        IN  /\ lastOp.op = "next" =>
                   selected_leg = legs[IF i = N THEN 1 ELSE i + 1]
            /\ lastOp.op = "previous" =>
                   selected_leg = legs[IF i = 1 THEN N ELSE i - 1]

\* selectPrevious has just wrapped from the first leg to the last of three.
C9_Witness ==
    /\ Len(legs) = 3
    /\ lastOp.op = "previous"
    /\ lastOp.sel = legs[1]
    /\ selected_leg = legs[3]

\* C10: in a scene with legs, selectNext and selectPrevious called with no
\* selection select the first leg, and both functions map every key that is
\* not a leg of the scene to the first leg.
C10_InvalidSelectionGoesFirst ==
    Len(legs) >= 1 =>
        /\ (lastOp.op \in {"next", "previous"} /\ lastOp.sel \notin KeysOf(legs)) =>
               selected_leg = legs[1]
        /\ \A k \in (KeysOf(AllKeys) \cup {None}) \ KeysOf(legs) :
               NextLeg(legs, k) = legs[1] /\ PreviousLeg(legs, k) = legs[1]

\* selectPrevious has just run with nothing selected in a scene of several legs.
C10_Witness ==
    /\ Len(legs) >= 2
    /\ lastOp.op = "previous"
    /\ lastOp.sel = None
    /\ selected_leg = legs[1]

----------------------------------------------------------------------------
\* C11: in a scene without legs, selectNext and selectPrevious change
\* nothing: the selection stays none, the joint-angle state stays empty, and
\* no error is raised.
C11_EmptySceneNoOp ==
    [][(Len(legs) = 0 /\ lastOp'.op \in {"next", "previous"}) =>
          /\ selected_leg = None
          /\ selected_leg' = None
          /\ joint_angles' = joint_angles
          /\ DOMAIN joint_angles' = {}
          /\ error' = "none"]_vars

\* selectPrevious has just run in a scene without legs.
C11_Witness ==
    /\ Len(legs) = 0
    /\ lastOp.op = "previous"
    /\ nextStart = None
    /\ selected_leg = None
    /\ joint_angles = EmptyDict
    /\ error = "none"

\* C12: in every state reached by selectNext, selectPrevious, rotate,
\* resetJoints, render and mouse presses, the selection is none or the key of
\* a leg of the scene.
C12_SelectionIsLegOrNone ==
    selected_leg = None \/ selected_leg \in KeysOf(legs)

\* A left click has just moved the selection from none to the second leg.
C12_Witness ==
    /\ lastOp.op = "click"
    /\ lastOp.sel = None
    /\ Len(legs) = 2
    /\ selected_leg = legs[2]

\* C13: a left click whose pick resolves to the tabletop or the background
\* sets the selection to none, one whose pick resolves to a leg sets it to
\* that leg's key, and a rotate that follows a tabletop or background click
\* changes no angle.
C13_ClickSetsSelection ==
    [][/\ (lastOp'.op = "click" /\ error' = "none") =>
             /\ selected_leg' = lastPick'.result
             /\ (lastPick'.read /\ lastPick'.inview /\ lastPick'.part = 0) =>
                    selected_leg' = None
             /\ (lastPick'.read /\ lastPick'.inview /\ lastPick'.part >= 1) =>
                    selected_leg' = legs[lastPick'.part]
       /\ (lastOp.op = "click" /\ ~Truthy(lastPick.result) /\ lastOp'.op = "rotate") =>
             joint_angles' = joint_angles]_vars

\* A left click on the tabletop or the background has just cleared the
\* selection of the second leg, whose x angle had been rotated.
C13_Witness ==
    /\ lastOp.op = "click"
    /\ Len(legs) = 2
    /\ lastOp.sel = legs[2]
    /\ lastPick.read /\ lastPick.inview /\ lastPick.part = 0
    /\ selected_leg = None
    /\ joint_angles[legs[2]]["x"] = ROTATION_STEP
    /\ rotations < MaxRotations

\* C14: a pick that reads a pixel decoding to id 0, or to an id that is not
\* in the id-to-leg mapping that call built, returns none.
C14_UnknownIdReturnsNone ==
    (lastOp.op = "click" /\ lastPick.read) =>
        LET pick_id == PickId(lastPick.pixel)
        IN  (pick_id = 0 \/ pick_id \notin DOMAIN pick_map) =>
                lastPick.result = None

\* A pick in a scene of two legs has just read a pixel that decodes to id 3,
\* which its mapping does not hold, and returned none.
C14_Witness ==
    /\ lastOp.op = "click"
    /\ lastPick.read
    /\ Len(legs) = 2
    /\ PickId(lastPick.pixel) = 3
    /\ DOMAIN pick_map = {1, 2}
    /\ lastPick.result = None

\* C15: in each pick the leg at 1-based position i is drawn with packed id
\* i, the id-to-key mapping is rebuilt to exactly {i -> key of the i-th leg},
\* and a pixel read back with leg i's ID colour makes the pick return the
\* key of the i-th leg.
C15_LegIdsAndMapping ==
    (lastOp.op = "click" /\ lastPick.read) =>
        /\ pick_map = [i \in 1..Len(legs) |-> legs[i]]
        /\ \A i \in 1..Len(legs) :
               /\ FbPixel(i) = PickColor(i)
               /\ PickId(FbPixel(i)) = i
               /\ lastPick.pixel = PickColor(i) => lastPick.result = legs[i]

\* A pick has just read the ID colour of the second leg inside the window
\* while the first leg was selected, and returned the second leg's key.
C15_Witness ==
    /\ Len(legs) = 2
    /\ lastOp.op = "click"
    /\ lastOp.sel = legs[1]
    /\ lastPick.read /\ lastPick.inview /\ lastPick.part = 2
    /\ lastPick.pixel = <<2, 0, 0>>
    /\ lastPick.result = legs[2]
    /\ pick_map = (1 :> legs[1]) @@ (2 :> legs[2])

\* C16: for every 1-based leg index in the 24-bit range, packing the id into
\* the bytes (id & 0xFF, (id >> 8) & 0xFF, (id >> 16) & 0xFF) and unpacking
\* r + (g << 8) + (b << 16) returns the id, the colour is not the reserved
\* (0,0,0), and two different indices get different colours; the same holds
\* of the bytes the framebuffer stores for the colour.
C16_EncodingInjective ==
    /\ PickId(PickColor(codec.a)) = codec.a
    /\ PickColor(codec.a) # <<0, 0, 0>>
    /\ codec.a # codec.b => PickColor(codec.a) # PickColor(codec.b)
    /\ codec.ca = PickColor(codec.a)
    /\ codec.da = codec.a
    /\ codec.a # codec.b => codec.ca # codec.cb

\* The indices 65536 and 256, which differ from each other and from 0 only
\* in the blue and in the green byte, have been encoded and decoded.
C16_Witness ==
    /\ codec.a = 65536
    /\ codec.b = 256
    /\ codec.ca = <<0, 0, 1>>
    /\ codec.cb = <<0, 1, 0>>
    /\ codec.da = 65536
    /\ codec.db = 256

\* C17: on every way of leaving pick (normal return, the early return of a
\* scene without legs, a failure raised while the parts are drawn or the
\* pixel is read) the screen, not the pick framebuffer, is the bound target.
C17_PickRestoresScreen ==
    lastOp.op = "click" => bound = 0

\* C18: a pick at pixel coordinates outside the viewport (x < 0, y < 0,
\* x >= width or y >= height) returns none and raises no error.
C18_OutsideReturnsNone ==
    (lastOp.op = "click" /\ lastPick.read /\ ~lastPick.inview) =>
        (lastPick.result = None /\ selected_leg = None /\ error = "none")

\* The framebuffers of a list that have not been released.
LiveFbos(f) == {i \in 1..Len(f) : f[i].releases = 0}

\* C19: over any sequence of picks and resizes at most one pick framebuffer
\* is live, after a pick its size is the viewport of that pick, a pick at an
\* unchanged size reuses the framebuffer, and every replaced framebuffer was
\* released exactly once, before its replacement was allocated.
C19_OnePickFramebuffer ==
    [][/\ Cardinality(LiveFbos(fbos')) <= 1
       /\ \A i \in 1..Len(fbos') : i # pick_fbo' => fbos'[i].releases = 1
       /\ (lastOp'.op = "click" /\ lastPick'.read) =>
              (pick_fbo' # 0 /\ fbos'[pick_fbo'].size = viewport')
       /\ (lastOp'.op = "click" /\ Len(legs) > 0 /\ pick_fbo # 0) =>
              (fbos[pick_fbo].size = viewport =>
                   (fbos' = fbos /\ pick_fbo' = pick_fbo))
       /\ Len(fbos') # Len(fbos) =>
              /\ Len(fbos') = Len(fbos) + 1
              /\ pick_fbo' = Len(fbos')
              /\ fbos'[pick_fbo'].releases = 0
              /\ pick_fbo # 0 =>
                     (fbos[pick_fbo].releases = 0 /\ fbos'[pick_fbo].releases = 1)
       /\ (error' # "none" /\ Len(fbos') = Len(fbos) /\ fbos' # fbos) =>
              (pick_fbo' = pick_fbo /\ fbos'[pick_fbo].releases = 1)]_vars

\* A pick has just replaced the framebuffer for the second time: the first
\* two were released once each and the third has the size of the viewport.
C19_Witness ==
    /\ lastOp.op = "click"
    /\ lastPick.read
    /\ Len(fbos) = 3
    /\ pick_fbo = 3
    /\ fbos[1].releases = 1
    /\ fbos[2].releases = 1
    /\ fbos[3] = [size |-> viewport, releases |-> 0]

\* C20: cleanup of the resource manager releases every registered buffer and
\* program exactly once, and a second cleanup releases nothing and raises no
\* error.
C20_ManagerCleanupOnce ==
    /\ cleanups = 0 =>
           /\ resources = ManagedResources
           /\ \A r \in KeysOf(ManagedResources) : releases[r] = 0
    /\ cleanups >= 1 =>
           /\ resources = <<>>
           /\ \A r \in KeysOf(ManagedResources) : releases[r] = 1
           /\ lastOp.op = "cleanup" => error = "none"

\* cleanup has just run for the second time, after the vertex buffer and the
\* two programs were released by the first.
C20_Witness ==
    /\ lastOp.op = "cleanup"
    /\ cleanups = 2
    /\ releases = [vbo |-> 1, main_program |-> 1, pick_program |-> 1]

\* C21: calling the renderer's cleanup twice raises nothing and releases
\* nothing twice: over the two calls the vertex array, the pick framebuffer,
\* the vertex buffer and the two programs each receive release() at most once.
C21_CleanupTwiceNoDoubleFree ==
    (lastOp.op = "cleanup" /\ cleanups <= 2) =>
        /\ error = "none"
        /\ vao.releases <= 1
        /\ \A i \in 1..Len(fbos) : fbos[i].releases <= 1
        /\ \A r \in DOMAIN releases : releases[r] <= 1

\* C22: every resource acquired through the manager is released exactly once
\* over its lifetime: one released on the error path of its acquisition is
\* not released again by a later cleanup, and one not released on an error
\* path is released by cleanup.
C22_ManagedReleasedOnce ==
    /\ \A r \in DOMAIN releases : releases[r] <= 1
    /\ lastOp.op = "manager_cleanup" =>
           \A r \in DOMAIN releases : releases[r] = 1

\* C23: a failure during a managed acquisition leaves the resource the
\* manager had created released and not live, and the error reaches the
\* caller; a successful acquisition appends exactly the new handle, live, to
\* the manager's list.
C23_AcquisitionFailureReleases ==
    [][lastOp'.op \in {"buffer", "program"} =>
          LET new == DOMAIN releases' \ DOMAIN releases
          IN  IF error' # "none"
              THEN /\ \A r \in new : releases'[r] = 1
                   /\ \A r \in DOMAIN releases : releases'[r] = releases[r]
                   /\ Cardinality(new) <= 1
              ELSE /\ Cardinality(new) = 1
                   /\ \A r \in new :
                          releases'[r] = 0 /\ resources' = Append(resources, r)
                   /\ \A r \in DOMAIN releases : releases'[r] = releases[r]]_vars

\* The acquisition of the main program has just failed in the body of its
\* with statement, after the vertex buffer was acquired: the program was
\* released, the buffer is live, and the error is with the caller.
C23_Witness ==
    /\ lastOp.op = "program"
    /\ error = "Error"
    /\ cleanups = 0
    /\ resources = <<"vbo", "main_program">>
    /\ releases = ("vbo" :> 0) @@ ("main_program" :> 1)

\* C24: when the creation of a dependent resource fails during the
\* construction of the renderer, every resource acquired before it is
\* released and the failure reaches the caller: no buffer or program stays
\* live after the failed construction.
C24_FailedConstructionReleasesAll ==
    (lastOp.op = "construct" /\ DOMAIN releases # KeysOf(ManagedResources)) =>
        /\ error # "none"
        /\ \A r \in DOMAIN releases : releases[r] = 1

\* C25: after cleanup, following any sequence of render and pick calls,
\* every GPU object the renderer created in the session has been released:
\* the vertex buffer, both programs, every pick framebuffer and every vertex
\* array created by a render or a pick.
C25_CleanupReleasesEverything ==
    lastOp.op = "cleanup" =>
        /\ \A r \in DOMAIN releases : releases[r] >= 1
        /\ \A i \in 1..Len(fbos) : fbos[i].releases >= 1
        /\ vao.program # "none" => vao.releases >= 1
        /\ ~orphaned

\* C26: on every shutdown path of the window, the close event and the Q/ESC
\* key, the renderer's cleanup has been invoked exactly once when the window
\* and its context are closed.
C26_ShutdownCleansUpOnce ==
    (window = "closed" /\ lastOp.op \in {"close", "quit"}) => cleanups = 1

C28_AngleMappingShape ==
    /\ DOMAIN joint_angles = KeysOf(legs)
    /\ \A k \in DOMAIN joint_angles : DOMAIN joint_angles[k] = {"x", "y", "z"}

\* The third leg of three has just been rotated about z after a change of
\* selection; its entry holds the three axes.
C28_Witness ==
    /\ Len(legs) = 3
    /\ lastOp = [op |-> "rotate", axis |-> "z", degrees |-> ROTATION_STEP, sel |-> "C"]
    /\ rotations = 1
    /\ joint_angles["C"] = [x |-> 0, y |-> 0, z |-> ROTATION_STEP]

\* C29: only rotate and resetJoints change the joint angles: render, pick
\* and the mouse press that calls it, selectNext, selectPrevious, a resize
\* and cleanup leave every leg's angles as they were.
C29_OnlyRotateAndResetMutate ==
    [][lastOp'.op \notin {"rotate", "reset"} => joint_angles' = joint_angles]_vars

\* A render has just run in a scene whose second leg had been rotated.
C29_Witness ==
    /\ Len(legs) = 2
    /\ lastOp.op = "render"
    /\ error = "none"
    /\ joint_angles[legs[2]]["x"] = ROTATION_STEP
    /\ joint_angles[legs[1]]["x"] = 0

\* C30: a render issues one draw for the tabletop and then one draw per leg
\* in the order of the leg list, N + 1 draws for N legs, each with the
\* colour and the matrices of the part it draws.
C30_RenderDrawsEachPartOnce ==
    (lastOp.op = "render" /\ error = "none") =>
        /\ Len(frame) = Len(legs) + 1
        /\ frame[1].part = 0
        /\ frame[1].of = "tabletop"
        /\ frame[1].color = <<82, 60, 40>>
        /\ \A i \in 1..Len(legs) :
               /\ frame[i + 1].part = i
               /\ frame[i + 1].of = legs[i]
               /\ frame[i + 1].angles = joint_angles[legs[i]]
               /\ frame[i + 1].color =
                      IF legs[i] = selected_leg THEN <<98, 65, 25>> ELSE <<45, 38, 33>>

\* A render has just drawn the tabletop, the first leg and then the
\* selected, rotated second leg.
C30_Witness ==
    /\ Len(legs) = 2
    /\ lastOp.op = "render"
    /\ error = "none"
    /\ selected_leg = legs[2]
    /\ Len(frame) = 3
    /\ frame[2].of = legs[1]
    /\ frame[3].of = legs[2]
    /\ frame[3].angles["x"] = ROTATION_STEP

\* C31: in every render a leg is drawn with the highlight colour if and only
\* if its key equals the current selection, and with the neutral colour
\* otherwise; the tabletop gets the wood colour; with no selection no leg is
\* highlighted, and at most one leg is highlighted.
C31_HighlightIffSelected ==
    (lastOp.op = "render" /\ error = "none") =>
        /\ frame[1].color = WoodTone
        /\ \A i \in 1..Len(legs) :
               /\ frame[i + 1].color = HighlightTone <=> legs[i] = selected_leg
               /\ frame[i + 1].color # HighlightTone => frame[i + 1].color = NeutralTone
        /\ selected_leg = None =>
               \A i \in 1..Len(legs) : frame[i + 1].color # HighlightTone
        /\ Cardinality({i \in 2..Len(frame) : frame[i].color = HighlightTone}) <= 1

\* A render has just drawn the selected first leg highlighted and the second
\* leg neutral, under the wood-coloured tabletop.
C31_Witness ==
    /\ Len(legs) = 2
    /\ lastOp.op = "render"
    /\ error = "none"
    /\ selected_leg = legs[1]
    /\ frame[1].color = WoodTone
    /\ frame[2].color = HighlightTone
    /\ frame[3].color = NeutralTone

\* A vertex taken through the arrays of a list, the first array first.
RECURSIVE ApplyEach(_, _)
ApplyEach(ms, v) ==
    IF ms = <<>> THEN v ELSE ApplyEach(Tail(ms), Apply(Head(ms), v))

\* The placed leg's vertex v scaled to the leg's size, lowered by half its
\* height, turned about the three axes in the order given, and moved to the
\* leg's offset (in X and Z) and to the tabletop's position.
LegVertex(first, second, third, v) ==
    ApplyEach(<<from_scale(placed.size),
                from_translation(<<0, -(placed.size[2] \div 2), 0>>),
                first, second, third,
                from_translation(<<placed.offset[1], 0, placed.offset[3]>>),
                from_translation(placed.tabletop.position)>>, v)

\* C32 as stated: of the three leg rotations the Z rotation is applied first
\* to the leg's local vertices, then Y, then X.
C32_Original ==
    placed # NoPlaced =>
        \A v \in CubeCorners :
            /\ Apply(placed.model_leg, v) =
                   LegVertex(from_z_rotation(placed.angles["z"]),
                             from_y_rotation(placed.angles["y"]),
                             from_x_rotation(placed.angles["x"]), v)
            /\ Apply(placed.fixed_model_leg, v) = Apply(placed.model_leg, v)

\* C32, amended: the rotations are multiplied in the order Z, Y, X, so the X
\* rotation is the one applied first to the leg's local vertices, then Y,
\* then Z; renderer.py and main_fixed.py build the same matrix.
C32_XRotationInnermost ==
    placed # NoPlaced =>
        \A v \in CubeCorners :
            /\ Apply(placed.model_leg, v) =
                   LegVertex(from_x_rotation(placed.angles["x"]),
                             from_y_rotation(placed.angles["y"]),
                             from_z_rotation(placed.angles["z"]), v)
            /\ Apply(placed.fixed_model_leg, v) = Apply(placed.model_leg, v)

\* A leg turned a quarter about X and a quarter about Z has been placed, and
\* one of its corners lies where X-first puts it and not where Z-first would.
C32_Witness ==
    /\ placed # NoPlaced
    /\ placed.angles = [x |-> 90, y |-> 0, z |-> 90]
    /\ \E v \in CubeCorners :
           /\ Apply(placed.model_leg, v) =
                  LegVertex(from_x_rotation(90), from_y_rotation(0), from_z_rotation(90), v)
           /\ Apply(placed.model_leg, v) #
                  LegVertex(from_z_rotation(90), from_y_rotation(0), from_x_rotation(90), v)

\* The product the leg model matrix is specified to be, for an offset and a
\* size: the Y component of the offset does not enter it.
SpecifiedLegMatrix(offset, size) ==
    Product(<<from_translation(placed.tabletop.position),
              from_translation(<<offset[1], 0, offset[3]>>),
              from_z_rotation(placed.angles["z"]),
              from_y_rotation(placed.angles["y"]),
              from_x_rotation(placed.angles["x"]),
              from_translation(<<0, -(size[2] \div 2), 0>>),
              from_scale(size)>>)

\* C33: the leg model matrix is the product, from left to right, of
\* translate(tabletop.position), translate(leg.offset.x, 0, leg.offset.z),
\* rotate-Z, rotate-Y, rotate-X, translate(0, -leg.size.y / 2, 0) and
\* scale(leg.size), in the base renderer and, on the scaled offset and size,
\* in the enhanced one; the Y component of leg.offset never influences it.
C33_LegModelMatrix ==
    placed # NoPlaced =>
        /\ placed.model_leg = SpecifiedLegMatrix(placed.offset, placed.size)
        /\ placed.enhanced_model_leg =
               SpecifiedLegMatrix(Scaled(placed.offset, placed.tabletop_scale),
                                  Scaled(placed.size, placed.leg_scale))

\* C34: with tabletop_scale and leg_scale at their reset value (1, 1, 1) the
\* enhanced renderer composes the same tabletop and leg model matrices as the
\* base renderer, for every shape and every joint-angle state.
C34_UnitScaleSameTransforms ==
    (placed # NoPlaced /\ placed.tabletop_scale = UnitScale
                       /\ placed.leg_scale = UnitScale) =>
        /\ placed.enhanced_model_tt = placed.model_tt
        /\ placed.enhanced_model_leg = placed.model_leg

\* C35: the projection's aspect ratio is width / max(1, height), so a draw
\* with a viewport of height 0 computes aspect = width and does not fail
\* with a division by zero.
C35_AspectNeverDividesByZero ==
    lastOp.op = "render" =>
        /\ error = "none"
        /\ \A i \in 1..Len(frame) :
               frame[i].aspect =
                   <<viewport[1], IF viewport[2] > 1 THEN viewport[2] ELSE 1>>

\* C36: a rotate with a leg selected changes only the selected leg's angle on
\* the given axis: the other two axes of that leg, every angle of every other
\* leg and the selection are unchanged; a reset leaves the selection unchanged.
C36_RotateChangesOnlyItsAngle ==
    [][/\ (lastOp'.op = "rotate" /\ Truthy(selected_leg)) =>
              /\ selected_leg' = selected_leg
              /\ DOMAIN joint_angles' = DOMAIN joint_angles
              /\ \A k \in DOMAIN joint_angles, a \in Axes :
                     (k # selected_leg \/ a # lastOp'.axis) =>
                         joint_angles'[k][a] = joint_angles[k][a]
       /\ lastOp'.op = "reset" => selected_leg' = selected_leg]_vars

\* The second leg has just been turned about Y while the first leg stays
\* turned about X.
C36_Witness ==
    /\ Len(legs) >= 2
    /\ lastOp.op = "rotate"
    /\ lastOp.axis = "y"
    /\ selected_leg = legs[2]
    /\ joint_angles[legs[2]]["y"] # 0
    /\ joint_angles[legs[1]]["x"] # 0
    /\ joint_angles[legs[1]]["y"] = 0

\* Where a list of draw calls places the parts: which part each call draws,
\* with which joint angles behind its model matrix, under which projection
\* and view.
Placements(draws) ==
    [i \in 1..Len(draws) |->
        [part |-> draws[i].part, of |-> draws[i].of, angles |-> draws[i].angles,
         aspect |-> draws[i].aspect, eye |-> draws[i].eye]]

\* C37: for the same scene state and viewport size the pick pass and the main
\* pass draw the same parts in the same order, the tabletop and then the legs
\* in list order, with the same model, view and projection matrices, so the
\* leg a pick returns for a pixel is the leg the main pass draws there.
C37_PickPlacesLikeRender ==
    /\ (lastOp.op = "click" /\ lastPick.read) =>
           /\ Placements(frame) = Placements(DrawList)
           /\ (lastPick.inview /\ lastPick.part >= 1) =>
                  lastPick.result = DrawList[lastPick.part + 1].of
    /\ (lastOp.op = "render" /\ error = "none") =>
           Placements(frame) = Placements(PickDrawList)

\* A pick has just drawn the tabletop, the first leg and the rotated second
\* leg, and returned the second leg for the pixel it covers.
C37_Witness ==
    /\ Len(legs) = 2
    /\ lastOp.op = "click"
    /\ lastPick.read
    /\ lastPick.inview
    /\ lastPick.part = 2
    /\ lastPick.result = legs[2]
    /\ Len(frame) = 3
    /\ frame[3].of = legs[2]
    /\ frame[3].angles["x"] = ROTATION_STEP

\* C38: the renderer variants implement the same interaction state machine:
\* every selectNext, rotate and resetJoints step of a stand-alone variant
\* ends with the selected_leg, the joint_angles and the outcome that
\* TableRenderer of renderer.py produces from the same state.
C38_VariantsAgree ==
    [][/\ lastOp'.op = "rotate" =>
              /\ error' = "none"
              /\ selected_leg' = selected_leg
              /\ joint_angles' =
                     IF ~Truthy(selected_leg) THEN joint_angles
                     ELSE [joint_angles EXCEPT ![selected_leg][lastOp'.axis] =
                              RotatedAngle(lastOp'.axis, lastOp'.degrees)]
       /\ lastOp'.op = "next" =>
              /\ error' = "none"
              /\ joint_angles' = joint_angles
              /\ selected_leg' =
                     IF Len(legs) = 0 THEN selected_leg ELSE NextLeg(legs, selected_leg)
       /\ lastOp'.op = "reset" =>
              /\ error' = "none"
              /\ selected_leg' = selected_leg
              /\ joint_angles' = [k \in DOMAIN joint_angles |-> ResetAngles]]_vars

\* C39: in the enhanced variant every component of tabletop_scale stays
\* within [0.5, 3.0] and every component of leg_scale within [0.3, 2.0]; an
\* adjust call changes only the named axis of the named scale, an unknown
\* axis changes nothing, and reset_tabletop sets both scales to (1, 1, 1)
\* without touching joint angles or selection.
C39_ScalesStayBounded ==
    [][/\ \A a \in Axes :
              /\ tabletop_scale'[a] >= 5 /\ tabletop_scale'[a] <= 30
              /\ leg_scale'[a] >= 3 /\ leg_scale'[a] <= 20
       /\ lastOp'.op = "adjust_tabletop" =>
              /\ leg_scale' = leg_scale
              /\ \A a \in Axes :
                     a # lastOp'.axis => tabletop_scale'[a] = tabletop_scale[a]
       /\ lastOp'.op = "adjust_leg" =>
              /\ tabletop_scale' = tabletop_scale
              /\ \A a \in Axes : a # lastOp'.axis => leg_scale'[a] = leg_scale[a]
       /\ lastOp'.op = "reset_tabletop" =>
              /\ tabletop_scale' = [a \in Axes |-> 10]
              /\ leg_scale' = [a \in Axes |-> 10]
       /\ lastOp'.op \in {"adjust_tabletop", "adjust_leg", "reset_tabletop"} =>
              /\ joint_angles' = joint_angles
              /\ selected_leg' = selected_leg]_vars

\* The leg scale has just been pushed against its lower bound on Y, with the
\* tabletop scale at its upper bound on X and a leg rotated.
C39_Witness ==
    /\ Len(legs) = 2
    /\ lastOp.op = "adjust_leg"
    /\ lastOp.axis = "y"
    /\ lastOp.degrees = -25
    /\ leg_scale = [x |-> 10, y |-> 3, z |-> 10]
    /\ tabletop_scale = [x |-> 30, y |-> 10, z |-> 10]
    /\ joint_angles[legs[1]]["x"] = ROTATION_STEP

\* C40: in the arcball camera the zoom distance stays within [3, 30] and the
\* elevation within [-89, 89] degrees over any sequence of mouse presses,
\* releases, drags and scrolls; a drag changes azimuth or elevation only when
\* its buttons value is the right button, or is the left button while
\* is_rotating is set; a release of the left or right button clears
\* is_rotating.
C40_CameraStaysBounded ==
    [][/\ camera'.distance >= 3000 /\ camera'.distance <= 30000
       /\ camera'.elevation >= -15533 /\ camera'.elevation <= 15533
       /\ lastOp'.op = "drag" =>
              ((camera'.azimuth # camera.azimuth
                    \/ camera'.elevation # camera.elevation) =>
                  (lastOp'.button = 4 \/ (lastOp'.button = 1 /\ camera.is_rotating)))
       /\ lastOp'.op # "drag" =>
              (camera'.azimuth = camera.azimuth /\ camera'.elevation = camera.elevation)
       /\ (lastOp'.op = "release" /\ lastOp'.button \in {1, 4}) =>
              ~camera'.is_rotating]_vars

\* A drag with the left button, while the camera is rotating, has just
\* pushed the elevation against its upper bound, with the camera zoomed in
\* to its smallest distance.
C40_Witness ==
    /\ lastOp.op = "drag"
    /\ lastOp.button = 1
    /\ camera.is_rotating
    /\ camera.elevation = 15533
    /\ camera.azimuth # 7854
    /\ camera.distance = 3000

====
